---- MODULE Spec2Model ----
(***************************************************************************)
(* Model of pkg/report/report.go (package report): the report tree         *)
(* TestsReport -> TestReport -> TestSpecStepReport -> OperationReport,     *)
(* its timing, the failure count computed by Close, the serializer         *)
(* selection and the persistence of a serialised report.                   *)
(*                                                                         *)
(* Pointers are indices into three heaps (tests, steps, ops); a            *)
(* constructor allocates the next index.  An instant (time.Time) is a      *)
(* number of ticks of 200 microseconds; the zero time.Time is 0 and the    *)
(* clock starts at 1.  A Go string produced by Sprintf is a sequence of    *)
(* one-character strings.  A nil *Failure is <<>>, a non-nil one is a      *)
(* one-element sequence holding the Failure struct.                        *)
(***************************************************************************)
EXTENDS Integers, Sequences, FiniteSets, TLC

VARIABLES now, suite, tests, steps, ops, ret, pc, local, mu

vars == <<now, suite, tests, steps, ops, ret, pc, local, mu>>

tree == <<suite, tests, steps, ops>>

conc == <<pc, local, mu>>

----------------------------------------------------------------------------
(* Bounds *)

MaxTests == 3

MaxSteps == 2

MaxOps == 1

MaxAppends == 3

MaxCost == 6

MaxClock == 7

NumProcs == 2

MaxFailures == 4

----------------------------------------------------------------------------
(* Values *)

ZeroTime == 0

TicksPerMilli == 5

TickStep == 3

NilFailure == <<>>

EmptyString == <<>>

Void == [call |-> "void"]

SuiteName == "smoke"

\* the runner names the tests it creates a, b, c, ... in the order it creates them
TestNames == <<"a", "b", "c", "d", "e">>

TestName(i) == TestNames[((i - 1) % Len(TestNames)) + 1]

TestFlags ==
  { [Concurrent |-> FALSE, Namespace |-> "", Skip |-> FALSE, SkipDelete |-> FALSE],
    [Concurrent |-> TRUE, Namespace |-> "ns1", Skip |-> TRUE, SkipDelete |-> TRUE] }

\* the arguments of the next call of NewTest
TestInputs ==
  { [Name |-> TestName(Len(tests) + 1), Concurrent |-> f.Concurrent,
     Namespace |-> f.Namespace, Skip |-> f.Skip, SkipDelete |-> f.SkipDelete] : f \in TestFlags }

StepNames == {"step1"}

FailureValues == { [Message |-> "boom", Type |-> "AssertionError"] }

OperationTypes == {"create", "delete", "apply", "assert", "error", "script", "command"}

OperationInputs == { [Name |-> "op1", OperationType |-> "apply"] }

\* v1alpha1.JSONFormat and v1alpha1.XMLFormat
JSONFormat == "JSON"

XMLFormat == "XML"

\* format identifiers a caller may pass
Formats == {JSONFormat, XMLFormat, "yaml", "json"}

\* implementations of ReportSerializer a caller may pass
Serializers == {"JSONSerializer", "XMLSerializer", "OtherSerializer"}

ReportNames == {"report"}

NoSerializer == "nil"

NoError == "nil"

UnsupportedFormat == "unsupported report format"

EncodingError == "encoding error"

WriteError == "write error"

\* the permission bits passed to os.WriteFile, 0o600
FilePerm == 384

----------------------------------------------------------------------------
(* Duration Formatter *)

Digit(n) == CASE n = 0 -> "0" [] n = 1 -> "1" [] n = 2 -> "2" [] n = 3 -> "3"
              [] n = 4 -> "4" [] n = 5 -> "5" [] n = 6 -> "6" [] n = 7 -> "7"
              [] n = 8 -> "8" [] n = 9 -> "9"

RECURSIVE Decimal(_)
Decimal(n) == IF n < 10 THEN <<Digit(n)>> ELSE Append(Decimal(n \div 10), Digit(n % 10))

\* end.Sub(start): the signed number of ticks from start to end
Sub(end, start) == end - start

\* the duration in milliseconds rounded to nearest, as %.3f rounds the seconds
RoundMillis(ticks) == (2 * ticks + TicksPerMilli) \div (2 * TicksPerMilli)

\* fmt.Sprintf("%.3f", end.Sub(start).Seconds())
calculateDuration(start, end) ==
  LET d == Sub(end, start)
      a == IF d < 0 THEN 0 - d ELSE d
      ms == RoundMillis(a)
      frac == ms % 1000
  IN (IF d < 0 THEN <<"-">> ELSE <<>>) \o Decimal(ms \div 1000) \o <<".">>
       \o <<Digit(frac \div 100), Digit((frac \div 10) % 10), Digit(frac % 10)>>

----------------------------------------------------------------------------
(* Constructors *)

NewTestsValue(name, t) ==
  [Name |-> name, StartTime |-> t, EndTime |-> ZeroTime, Time |-> EmptyString,
   Reports |-> <<>>, Failures |-> 0]

NewTestValue(in, t) ==
  [Name |-> in.Name, StartTime |-> t, EndTime |-> ZeroTime, Time |-> EmptyString,
   Failure |-> NilFailure, Steps |-> <<>>, Concurrent |-> in.Concurrent,
   Namespace |-> in.Namespace, Skip |-> in.Skip, SkipDelete |-> in.SkipDelete]

NewTestSpecStepValue(name) == [Name |-> name, Results |-> <<>>]

NewOperationValue(in, t) ==
  [Name |-> in.Name, StartTime |-> t, EndTime |-> ZeroTime, Time |-> EmptyString,
   Result |-> "", Message |-> "", OperationType |-> in.OperationType]

TestPtrs == 1..Len(tests)

StepPtrs == 1..Len(steps)

OpPtrs == 1..Len(ops)

\* the number of child pointers held by all parents
Appends ==
  LET RECURSIVE Sum(_, _)
      Sum(f, n) == IF n = 0 THEN 0 ELSE Sum(f, n - 1) + f[n]
  IN Len(suite.Reports)
     + Sum([i \in TestPtrs |-> Len(tests[i].Steps)], Len(tests))
     + Sum([i \in StepPtrs |-> Len(steps[i].Results)], Len(steps))

RECURSIVE Marked(_, _)
Marked(heap, n) ==
  IF n = 0 THEN 0
  ELSE Marked(heap, n - 1) + (IF heap[n].EndTime # ZeroTime THEN 1 ELSE 0)

RECURSIVE Failed(_, _)
Failed(heap, n) ==
  IF n = 0 THEN 0
  ELSE Failed(heap, n - 1) + (IF heap[n].Failure # NilFailure THEN 1 ELSE 0)

\* the size of the explored run: what has been allocated, appended, marked
\* and failed so far, and how far the clock has advanced
Cost ==
  Len(tests) + Len(steps) + Len(ops) + Appends
  + Marked(tests, Len(tests)) + Marked(ops, Len(ops)) + Failed(tests, Len(tests))
  + (IF suite.EndTime # ZeroTime THEN 1 ELSE 0) + ((now - 1) \div TickStep)
  + (IF ret = Void THEN 0 ELSE 2)

----------------------------------------------------------------------------
(* Initial state: NewTests has returned the suite report *)

Init ==
  /\ now = 1
  /\ suite = NewTestsValue(SuiteName, 1)
  /\ tests = <<>>
  /\ steps = <<>>
  /\ ops = <<>>
  /\ ret = Void
  /\ pc = <<>>
  /\ local = <<>>
  /\ mu = 0

----------------------------------------------------------------------------
(* The clock *)

Tick ==
  /\ Cost < MaxCost
  /\ now + TickStep <= MaxClock
  /\ now' = now + TickStep
  /\ ret' = Void
  /\ UNCHANGED <<tree, conc>>

----------------------------------------------------------------------------
(* Operations *)

NewTest ==
  /\ Cost < MaxCost
  /\ Len(tests) < MaxTests
  /\ \E in \in TestInputs : tests' = Append(tests, NewTestValue(in, now))
  /\ ret' = Void
  /\ UNCHANGED <<now, suite, steps, ops, conc>>

NewTestSpecStep ==
  /\ Cost < MaxCost
  /\ Len(steps) < MaxSteps
  /\ \E name \in StepNames : steps' = Append(steps, NewTestSpecStepValue(name))
  /\ ret' = Void
  /\ UNCHANGED <<now, suite, tests, ops, conc>>

NewOperation ==
  /\ Cost < MaxCost
  /\ Len(ops) < MaxOps
  /\ \E in \in OperationInputs : ops' = Append(ops, NewOperationValue(in, now))
  /\ ret' = Void
  /\ UNCHANGED <<now, suite, tests, steps, conc>>

\* variant: attaching a Failure also counts it in the suite
SetFailureCounting(t) ==
  /\ tests[t].Failure # NilFailure \/ Cost < MaxCost
  /\ \E f \in FailureValues : tests' = [tests EXCEPT ![t].Failure = <<f>>]
  /\ suite' = [suite EXCEPT !.Failures = @ + 1]
  /\ ret' = Void
  /\ UNCHANGED <<now, steps, ops, conc>>

\* the writer assigns the Failure field of a test report
SetFailure(t) ==
  /\ tests[t].Failure # NilFailure \/ Cost < MaxCost
  /\ \E f \in FailureValues : tests' = [tests EXCEPT ![t].Failure = <<f>>]
  /\ ret' = Void
  /\ UNCHANGED <<now, suite, steps, ops, conc>>

\* variant: the new test report is put first
AddTestValuePrepend(tr, test) == [tr EXCEPT !.Reports = <<test>> \o tr.Reports]

\* variant: append to the emptied slice, tr.Reports[:0]
AddTestValueReset(tr, test) == [tr EXCEPT !.Reports = <<test>>]

\* tr.Reports = append(tr.Reports, test)
AddTestValue(tr, test) == [tr EXCEPT !.Reports = Append(tr.Reports, test)]

AddTest(t) ==
  /\ Cost < MaxCost
  /\ Appends < MaxAppends
  /\ suite' = AddTestValue(suite, t)
  /\ ret' = Void
  /\ UNCHANGED <<now, tests, steps, ops, conc>>

\* variant: the step is appended twice
AddTestStepValueTwice(tv, step) == [tv EXCEPT !.Steps = Append(Append(tv.Steps, step), step)]

\* t.Steps = append(t.Steps, step)
AddTestStepValue(tv, step) == [tv EXCEPT !.Steps = Append(tv.Steps, step)]

AddTestStep(t, s) ==
  /\ Cost < MaxCost
  /\ Appends < MaxAppends
  /\ tests' = [tests EXCEPT ![t] = AddTestStepValue(tests[t], s)]
  /\ ret' = Void
  /\ UNCHANGED <<now, suite, steps, ops, conc>>

\* ts.Results = append(ts.Results, op)
AddOperationValue(sv, op) == [sv EXCEPT !.Results = Append(sv.Results, op)]

AddOperation(s, o) ==
  /\ Cost < MaxCost
  /\ Appends < MaxAppends
  /\ steps' = [steps EXCEPT ![s] = AddOperationValue(steps[s], o)]
  /\ ret' = Void
  /\ UNCHANGED <<now, suite, tests, ops, conc>>

\* variant: the duration is computed before EndTime is assigned
MarkEndValueStale(n, t) ==
  [n EXCEPT !.EndTime = t, !.Time = calculateDuration(n.StartTime, n.EndTime)]

\* variant: only the first call marks the end
MarkEndValueOnce(n, t) ==
  IF n.EndTime # ZeroTime THEN n
  ELSE [n EXCEPT !.EndTime = t, !.Time = calculateDuration(n.StartTime, t)]

\* EndTime = time.Now(); Time = calculateDuration(StartTime, EndTime)
MarkEndValue(n, t) ==
  [n EXCEPT !.EndTime = t, !.Time = calculateDuration(n.StartTime, t)]

MarkTestEnd(t) ==
  /\ tests[t].EndTime # ZeroTime \/ Cost < MaxCost
  /\ tests' = [tests EXCEPT ![t] = MarkEndValue(tests[t], now)]
  /\ ret' = Void
  /\ UNCHANGED <<now, suite, steps, ops, conc>>

MarkOperationEnd(o) ==
  /\ ops[o].EndTime # ZeroTime \/ Cost < MaxCost
  /\ ops' = [ops EXCEPT ![o] = MarkEndValue(ops[o], now)]
  /\ ret' = Void
  /\ UNCHANGED <<now, suite, tests, steps, conc>>

\* variant: every report is counted, failed or not
CountFailuresAll(failures, reports, heap) == failures + Len(reports)

\* the loop of Close: tr.Failures++ for every report whose Failure is not nil
RECURSIVE CountFailures(_, _, _)
CountFailures(failures, reports, heap) ==
  IF reports = <<>> THEN failures
  ELSE CountFailures(IF heap[Head(reports)].Failure # NilFailure
                     THEN failures + 1 ELSE failures,
                     Tail(reports), heap)

CloseValue(tr, heap, t) ==
  [MarkEndValue(tr, t) EXCEPT !.Failures = CountFailures(tr.Failures, tr.Reports, heap)]

Close ==
  /\ suite.EndTime # ZeroTime \/ Cost < MaxCost
  /\ CountFailures(suite.Failures, suite.Reports, tests) <= MaxFailures
  /\ suite' = CloseValue(suite, tests, now)
  /\ ret' = Void
  /\ UNCHANGED <<now, tests, steps, ops, conc>>

----------------------------------------------------------------------------
(* Serializers.  A JSON object is the sequence of its <<key, value>>       *)
(* members in field order; an XML element is a record of its tag, its      *)
(* attributes in field order and its child elements in field order.  A     *)
(* field tagged omitempty is left out when it holds its empty value.       *)

\* time.Time rendered by its MarshalJSON / MarshalText
TimeText(t) == <<"RFC3339", t>>

Field(key, value, omitted) == [key |-> key, value |-> value, omitted |-> omitted]

Kept(fields) ==
  LET k == SelectSeq(fields, LAMBDA f : ~f.omitted)
  IN [i \in 1..Len(k) |-> <<k[i].key, k[i].value>>]

jsonFailure(f) == <<<<"message", f.Message>>, <<"type", f.Type>>>>

jsonOperation(o) ==
  Kept(<<Field("name", ops[o].Name, FALSE),
         Field("startTime", TimeText(ops[o].StartTime), FALSE),
         Field("endTime", TimeText(ops[o].EndTime), FALSE),
         Field("time", ops[o].Time, FALSE),
         Field("result", ops[o].Result, FALSE),
         Field("message", ops[o].Message, ops[o].Message = ""),
         Field("operationType", ops[o].OperationType, ops[o].OperationType = "")>>)

jsonStep(s) ==
  Kept(<<Field("name", steps[s].Name, steps[s].Name = ""),
         Field("results", [i \in 1..Len(steps[s].Results) |-> jsonOperation(steps[s].Results[i])],
               steps[s].Results = <<>>)>>)

jsonTest(t) ==
  Kept(<<Field("name", tests[t].Name, FALSE),
         Field("startTime", TimeText(tests[t].StartTime), FALSE),
         Field("endTime", TimeText(tests[t].EndTime), FALSE),
         Field("time", tests[t].Time, FALSE),
         Field("failure", IF tests[t].Failure = NilFailure THEN <<>>
                          ELSE jsonFailure(tests[t].Failure[1]),
               tests[t].Failure = NilFailure),
         Field("steps", [i \in 1..Len(tests[t].Steps) |-> jsonStep(tests[t].Steps[i])],
               tests[t].Steps = <<>>),
         Field("concurrent", tests[t].Concurrent, ~tests[t].Concurrent),
         Field("namespace", tests[t].Namespace, tests[t].Namespace = ""),
         Field("skip", tests[t].Skip, ~tests[t].Skip),
         Field("skipDelete", tests[t].SkipDelete, ~tests[t].SkipDelete)>>)

\* JSONSerializer.Serialize
jsonSerialize(tr) ==
  Kept(<<Field("name", tr.Name, FALSE),
         Field("startTime", TimeText(tr.StartTime), FALSE),
         Field("endTime", TimeText(tr.EndTime), FALSE),
         Field("time", tr.Time, FALSE),
         Field("reports", [i \in 1..Len(tr.Reports) |-> jsonTest(tr.Reports[i])], FALSE),
         Field("failures", tr.Failures, FALSE)>>)

Element(tag, attrs, children) ==
  [tag |-> tag, attrs |-> Kept(attrs), children |-> children]

xmlFailure(f) ==
  Element("failure", <<Field("message", f.Message, FALSE), Field("type", f.Type, FALSE)>>, <<>>)

xmlOperation(o) ==
  Element("results",
          <<Field("name", ops[o].Name, FALSE),
            Field("startTime", TimeText(ops[o].StartTime), FALSE),
            Field("endTime", TimeText(ops[o].EndTime), FALSE),
            Field("time", ops[o].Time, FALSE),
            Field("result", ops[o].Result, FALSE),
            Field("operationType", ops[o].OperationType, FALSE)>>,
          IF ops[o].Message = "" THEN <<>>
          ELSE <<Element("message", <<>>, <<ops[o].Message>>)>>)

xmlStep(s) ==
  Element("steps",
          <<Field("name", steps[s].Name, steps[s].Name = "")>>,
          [i \in 1..Len(steps[s].Results) |-> xmlOperation(steps[s].Results[i])])

xmlTest(t) ==
  Element("reports",
          <<Field("name", tests[t].Name, FALSE),
            Field("startTime", TimeText(tests[t].StartTime), FALSE),
            Field("endTime", TimeText(tests[t].EndTime), FALSE),
            Field("time", tests[t].Time, FALSE),
            Field("concurrent", tests[t].Concurrent, ~tests[t].Concurrent),
            Field("namespace", tests[t].Namespace, tests[t].Namespace = ""),
            Field("skip", tests[t].Skip, ~tests[t].Skip),
            Field("skipDelete", tests[t].SkipDelete, ~tests[t].SkipDelete)>>,
          (IF tests[t].Failure = NilFailure THEN <<>> ELSE <<xmlFailure(tests[t].Failure[1])>>)
            \o [i \in 1..Len(tests[t].Steps) |-> xmlStep(tests[t].Steps[i])])

\* XMLSerializer.Serialize
xmlSerialize(tr) ==
  Element("TestsReport",
          <<Field("name", tr.Name, FALSE),
            Field("startTime", TimeText(tr.StartTime), FALSE),
            Field("endTime", TimeText(tr.EndTime), FALSE),
            Field("time", tr.Time, FALSE),
            Field("failures", tr.Failures, FALSE)>>,
          [i \in 1..Len(tr.Reports) |-> xmlTest(tr.Reports[i])])

\* the results serializer.Serialize(report) can have: the two encoders of
\* the package always succeed on a report tree; another implementation of
\* the interface may return bytes or an error
Serialize(serializer, tr) ==
  CASE serializer = "JSONSerializer" -> { [data |-> <<"json", jsonSerialize(tr)>>, err |-> NoError] }
    [] serializer = "XMLSerializer" -> { [data |-> <<"xml", xmlSerialize(tr)>>, err |-> NoError] }
    [] OTHER -> { [data |-> <<"other">>, err |-> NoError],
                  [data |-> <<>>, err |-> EncodingError] }

\* the results os.WriteFile can have
WriteFile == {NoError, WriteError}

\* strings.ToLower on the format identifiers
ToLower(s) == CASE s = "JSON" -> "json" [] s = "XML" -> "xml" [] OTHER -> s

\* variant: the serializer's error is ignored and the data written
SaveReportValueIgnoreErr(s, w, filePath) ==
  [err |-> w, writes |-> << [path |-> filePath, data |-> s.data, perm |-> FilePerm] >>]

\* SaveReport, given what Serialize and WriteFile return: the error it
\* returns and the writes it issues
SaveReportValue(s, w, filePath) ==
  IF s.err # NoError
  THEN [err |-> s.err, writes |-> <<>>]
  ELSE [err |-> w, writes |-> << [path |-> filePath, data |-> s.data, perm |-> FilePerm] >>]

SaveReport(serializer, filePath) ==
  /\ Cost + 1 < MaxCost
  /\ \E s \in Serialize(serializer, suite) : \E w \in WriteFile :
       ret' = [call |-> "SaveReport", format |-> "", serializer |-> serializer,
               path |-> filePath, serialized |-> <<s>>, wrote |-> w,
               result |-> SaveReportValue(s, w, filePath)]
  /\ UNCHANGED <<now, tree, conc>>

\* variant: the format identifier is matched without regard to case
GetSerializerValueFold(format) ==
  CASE ToLower(format) = "json" -> [serializer |-> "JSONSerializer", err |-> NoError]
    [] ToLower(format) = "xml" -> [serializer |-> "XMLSerializer", err |-> NoError]
    [] OTHER -> [serializer |-> NoSerializer, err |-> UnsupportedFormat]

\* GetSerializer: the serializer and the error it returns
GetSerializerValue(format) ==
  CASE format = JSONFormat -> [serializer |-> "JSONSerializer", err |-> NoError]
    [] format = XMLFormat -> [serializer |-> "XMLSerializer", err |-> NoError]
    [] OTHER -> [serializer |-> NoSerializer, err |-> UnsupportedFormat]

GetSerializer(format) ==
  /\ Cost + 1 < MaxCost
  /\ ret' = [call |-> "GetSerializer", format |-> format,
             result |-> GetSerializerValue(format)]
  /\ UNCHANGED <<now, tree, conc>>

FilePath(reportName, reportFormat) == <<reportName, ".", ToLower(reportFormat)>>

SaveReportBasedOnType(reportFormat, reportName) ==
  /\ Cost + 1 < MaxCost
  /\ LET g == GetSerializerValue(reportFormat)
     IN IF g.err # NoError
        THEN ret' = [call |-> "SaveReportBasedOnType", format |-> reportFormat,
                     serializer |-> g.serializer, path |-> <<>>, serialized |-> <<>>,
                     wrote |-> NoError, result |-> [err |-> g.err, writes |-> <<>>]]
        ELSE \E s \in Serialize(g.serializer, suite) : \E w \in WriteFile :
               ret' = [call |-> "SaveReportBasedOnType", format |-> reportFormat,
                       serializer |-> g.serializer,
                       path |-> FilePath(reportName, reportFormat),
                       serialized |-> <<s>>, wrote |-> w,
                       result |-> SaveReportValue(s, w, FilePath(reportName, reportFormat))]
  /\ UNCHANGED <<now, tree, conc>>

Next ==
  \/ Tick
  \/ NewTest
  \/ NewTestSpecStep
  \/ NewOperation
  \/ \E t \in TestPtrs : SetFailure(t)
  \/ \E t \in TestPtrs : AddTest(t)
  \/ \E t \in TestPtrs : \E s \in StepPtrs : AddTestStep(t, s)
  \/ \E s \in StepPtrs : \E o \in OpPtrs : AddOperation(s, o)
  \/ \E t \in TestPtrs : MarkTestEnd(t)
  \/ \E o \in OpPtrs : MarkOperationEnd(o)
  \/ Close
  \/ \E f \in Formats : GetSerializer(f)
  \/ \E sr \in Serializers : \E n \in ReportNames : \E f \in {JSONFormat, XMLFormat} :
       SaveReport(sr, FilePath(n, f))
  \/ \E f \in Formats : \E n \in ReportNames : SaveReportBasedOnType(f, n)

Spec == Init /\ [][Next]_vars

----------------------------------------------------------------------------
(* Concurrent tests.  The runner (process 0) starts NumProcs goroutines,   *)
(* one per test; each creates its own test report and is the only writer   *)
(* of it.  The package takes no lock: AddTest reads tr.Reports and then    *)
(* writes it.  The runner's mutex mu serialises the AddTest calls.  When   *)
(* every goroutine has finished the runner calls Close.  The clock does    *)
(* not advance during the run: every instant read is the same.             *)

Procs == 1..NumProcs

Tasks == {"add", "step", "outcome", "end"}

ConcurrentInputs == {in \in TestInputs : in.Concurrent}

InitConc ==
  /\ now = 1
  /\ suite = NewTestsValue(SuiteName, 1)
  /\ tests = <<>>
  /\ steps = <<>>
  /\ ops = <<>>
  /\ ret = Void
  /\ pc = [p \in 0..NumProcs |-> IF p = 0 THEN "wait" ELSE "new"]
  /\ local = [p \in Procs |-> [t |-> 0, reports |-> <<>>, todo |-> Tasks]]
  /\ mu = 0

CNewTest(p) ==
  /\ pc[p] = "new"
  /\ \E in \in ConcurrentInputs : tests' = Append(tests, NewTestValue(in, now))
  /\ local' = [local EXCEPT ![p].t = Len(tests) + 1]
  /\ pc' = [pc EXCEPT ![p] = "idle"]
  /\ UNCHANGED <<now, suite, steps, ops, ret, mu>>

\* the runner's mutex around AddTest
CLock(p) ==
  /\ pc[p] = "idle"
  /\ "add" \in local[p].todo
  /\ mu = 0
  /\ mu' = p
  /\ pc' = [pc EXCEPT ![p] = "locked"]
  /\ UNCHANGED <<now, tree, ret, local>>

\* AddTest, first half: the read of tr.Reports
CAddTestRead(p) ==
  /\ pc[p] = "locked"
  /\ local' = [local EXCEPT ![p].reports = suite.Reports]
  /\ pc' = [pc EXCEPT ![p] = "read"]
  /\ UNCHANGED <<now, tree, ret, mu>>

\* AddTest, second half: the write of the appended slice to tr.Reports
CAddTestWrite(p) ==
  /\ pc[p] = "read"
  /\ suite' = AddTestValue([suite EXCEPT !.Reports = local[p].reports], local[p].t)
  /\ pc' = [pc EXCEPT ![p] = "written"]
  /\ UNCHANGED <<now, tests, steps, ops, ret, local, mu>>

CUnlock(p) ==
  /\ pc[p] = "written"
  /\ mu' = 0
  /\ local' = [local EXCEPT ![p].todo = @ \ {"add"}]
  /\ pc' = [pc EXCEPT ![p] = "idle"]
  /\ UNCHANGED <<now, tree, ret>>

\* the goroutine records a step of its own test
CAddTestStep(p) ==
  /\ pc[p] = "idle"
  /\ "step" \in local[p].todo
  /\ \E name \in StepNames : steps' = Append(steps, NewTestSpecStepValue(name))
  /\ tests' = [tests EXCEPT ![local[p].t] = AddTestStepValue(tests[local[p].t], Len(steps) + 1)]
  /\ local' = [local EXCEPT ![p].todo = @ \ {"step"}]
  /\ UNCHANGED <<now, suite, ops, ret, pc, mu>>

\* the test failed: the goroutine attaches a Failure
CSetFailure(p) ==
  /\ pc[p] = "idle"
  /\ "outcome" \in local[p].todo
  /\ \E f \in FailureValues : tests' = [tests EXCEPT ![local[p].t].Failure = <<f>>]
  /\ local' = [local EXCEPT ![p].todo = @ \ {"outcome"}]
  /\ UNCHANGED <<now, suite, steps, ops, ret, pc, mu>>

\* the test passed: no Failure is attached
CPass(p) ==
  /\ pc[p] = "idle"
  /\ "outcome" \in local[p].todo
  /\ local' = [local EXCEPT ![p].todo = @ \ {"outcome"}]
  /\ UNCHANGED <<now, tree, ret, pc, mu>>

CMarkTestEnd(p) ==
  /\ pc[p] = "idle"
  /\ "end" \in local[p].todo
  /\ tests' = [tests EXCEPT ![local[p].t] = MarkEndValue(tests[local[p].t], now)]
  /\ local' = [local EXCEPT ![p].todo = @ \ {"end"}]
  /\ UNCHANGED <<now, suite, steps, ops, ret, pc, mu>>

CFinish(p) ==
  /\ pc[p] = "idle"
  /\ local[p].todo = {}
  /\ pc' = [pc EXCEPT ![p] = "done"]
  /\ UNCHANGED <<now, tree, ret, local, mu>>

CClose ==
  /\ pc[0] = "wait"
  /\ \A p \in Procs : pc[p] = "done"
  /\ suite' = CloseValue(suite, tests, now)
  /\ pc' = [pc EXCEPT ![0] = "closed"]
  /\ UNCHANGED <<now, tests, steps, ops, ret, local, mu>>

NextConc ==
  \/ \E p \in Procs : CNewTest(p)
  \/ \E p \in Procs : CLock(p)
  \/ \E p \in Procs : CAddTestRead(p)
  \/ \E p \in Procs : CAddTestWrite(p)
  \/ \E p \in Procs : CUnlock(p)
  \/ \E p \in Procs : CAddTestStep(p)
  \/ \E p \in Procs : CSetFailure(p)
  \/ \E p \in Procs : CPass(p)
  \/ \E p \in Procs : CMarkTestEnd(p)
  \/ \E p \in Procs : CFinish(p)
  \/ CClose

SpecConc == InitConc /\ [][NextConc]_vars

----------------------------------------------------------------------------
(* Properties *)

\* the positions of a suite's Reports whose test report has a Failure
FailedReports(tr, heap) ==
  {i \in 1..Len(tr.Reports) : heap[tr.Reports[i]].Failure # NilFailure}

IsPrefix(s, t) == Len(s) <= Len(t) /\ \A i \in 1..Len(s) : s[i] = t[i]

\* C1: the first Close of a suite report (its EndTime is still the zero
\* time) leaves Failures equal to the number of its test reports that have
\* a Failure at that moment, whatever steps and operations exist.
C1_FirstCloseCounts ==
  [][(Close /\ suite.EndTime = ZeroTime)
       => suite'.Failures = Cardinality(FailedReports(suite, tests))]_vars

C1_Witness ==
  /\ suite.EndTime # ZeroTime
  /\ Len(suite.Reports) = 2
  /\ Cardinality(FailedReports(suite, tests)) = 1
  /\ suite.Failures = 1

\* C2: every Close, a second or later one included, leaves Failures equal
\* to the number of test reports that have a Failure at that call.
C2_EveryCloseOverwrites ==
  [][Close => suite'.Failures = Cardinality(FailedReports(suite, tests))]_vars

\* C3: Failures is 0 after NewTests and only a step of Close changes it.
C3_OnlyCloseWritesFailures ==
  /\ suite.Failures = 0
  /\ [][suite'.Failures # suite.Failures => Close]_vars

\* a Failure was attached after Close and Failures still holds Close's value
C3_Witness ==
  /\ suite.EndTime # ZeroTime
  /\ suite.Failures = 0
  /\ Cardinality(FailedReports(suite, tests)) = 1

\* the names of the test reports in the "reports" member of a JSON document
JSONReportNames(doc) == [i \in 1..Len(doc[5][2]) |-> doc[5][2][i][1][2]]

\* C4: every step leaves each child sequence as it was or with one element
\* added at the end, the element given to AddTest, AddTestStep or
\* AddOperation by that step; the JSON document written by a save lists the
\* test reports in the order of Reports.
C4_AppendOnly ==
  /\ [](ret.call \in {"SaveReport", "SaveReportBasedOnType"}
          => \A w \in {ret.result.writes[i] : i \in 1..Len(ret.result.writes)} :
               w.data[1] = "json"
                 => JSONReportNames(w.data[2])
                      = [i \in 1..Len(suite.Reports) |-> tests[suite.Reports[i]].Name])
  /\ [][/\ IsPrefix(suite.Reports, suite'.Reports)
        /\ \A t \in TestPtrs : IsPrefix(tests[t].Steps, tests'[t].Steps)
        /\ \A s \in StepPtrs : IsPrefix(steps[s].Results, steps'[s].Results)
        /\ \A t \in TestPtrs :
             AddTest(t) => /\ suite'.Reports = suite.Reports \o <<t>>
                           /\ UNCHANGED <<tests, steps>>
        /\ \A t \in TestPtrs : \A s \in StepPtrs :
             AddTestStep(t, s) => /\ tests'[t].Steps = tests[t].Steps \o <<s>>
                                  /\ \A u \in TestPtrs \ {t} : tests'[u] = tests[u]
                                  /\ UNCHANGED <<suite.Reports, steps>>
        /\ \A s \in StepPtrs : \A o \in OpPtrs :
             AddOperation(s, o) => /\ steps'[s].Results = steps[s].Results \o <<o>>
                                   /\ \A u \in StepPtrs \ {s} : steps'[u] = steps[u]
                                   /\ UNCHANGED <<suite.Reports, tests>>
       ]_vars

C4_Witness ==
  /\ suite.Reports = <<1, 2, 3>>
  /\ [i \in 1..3 |-> tests[suite.Reports[i]].Name] = <<"a", "b", "c">>

\* C5: GetSerializer returns the JSON serializer and no error for the JSON
\* format, the XML serializer and no error for the XML format, and no
\* serializer and the unsupported-format error for any other identifier.
C5_GetSerializer ==
  ret.call = "GetSerializer" =>
    /\ ret.format = JSONFormat
         => ret.result = [serializer |-> "JSONSerializer", err |-> NoError]
    /\ ret.format = XMLFormat
         => ret.result = [serializer |-> "XMLSerializer", err |-> NoError]
    /\ ret.format \notin {JSONFormat, XMLFormat}
         => ret.result = [serializer |-> NoSerializer, err |-> UnsupportedFormat]
    /\ (ret.result.serializer = NoSerializer) # (ret.result.err = NoError)

C5_Witness ==
  /\ ret.call = "GetSerializer"
  /\ ret.format = "yaml"
  /\ ret.result.err = UnsupportedFormat

\* the steps of a save call
IsSave(r) == r.call \in {"SaveReport", "SaveReportBasedOnType"}

\* C6: a save with an unsupported format returns that error, serialises
\* nothing and writes nothing; a save whose serializer fails returns the
\* serializer's error and writes nothing; any other save issues exactly one
\* write, of the bytes the serializer returned for the report, to the
\* destination path with mode 0600 and returns the result of that write;
\* no save changes the report tree.
C6_SaveAllOrNothing ==
  /\ [](IsSave(ret) =>
          /\ (ret.call = "SaveReportBasedOnType" /\ ret.format \notin {JSONFormat, XMLFormat})
               => /\ ret.result = [err |-> UnsupportedFormat, writes |-> <<>>]
                  /\ ret.serialized = <<>>
          /\ (ret.call = "SaveReport" \/ ret.format \in {JSONFormat, XMLFormat})
               => /\ Len(ret.serialized) = 1
                  /\ ret.serialized[1] \in Serialize(ret.serializer, suite)
                  /\ ret.serialized[1].err # NoError
                       => ret.result = [err |-> ret.serialized[1].err, writes |-> <<>>]
                  /\ ret.serialized[1].err = NoError
                       => /\ ret.result.err = ret.wrote
                          /\ ret.result.writes
                               = << [path |-> ret.path, data |-> ret.serialized[1].data,
                                     perm |-> FilePerm] >>
          /\ ret.call = "SaveReportBasedOnType" /\ ret.format \in {JSONFormat, XMLFormat}
               => ret.path = <<"report", ".", IF ret.format = JSONFormat THEN "json" ELSE "xml">>)
  /\ [][IsSave(ret') /\ ret' # ret => UNCHANGED tree]_vars

C6_Witness ==
  /\ ret.call = "SaveReport"
  /\ ret.result = [err |-> EncodingError, writes |-> <<>>]
  /\ Len(suite.Reports) = 1

\* the number of positions of all parents' sequences that hold a pointer
Occurrences(seqs, x) ==
  LET RECURSIVE Occ(_)
      Occ(n) == IF n = 0 THEN 0
                ELSE Occ(n - 1) + Cardinality({i \in 1..Len(seqs[n]) : seqs[n][i] = x})
  IN Occ(Len(seqs))

ReportsOf(tr) == <<tr.Reports>>

StepsOf(heap) == [i \in 1..Len(heap) |-> heap[i].Steps]

ResultsOf(heap) == [i \in 1..Len(heap) |-> heap[i].Results]

\* no node is held twice, by one parent or by two
Exclusive(tr, th, sh, oh) ==
  /\ \A t \in 1..Len(th) : Occurrences(ReportsOf(tr), t) <= 1
  /\ \A s \in 1..Len(sh) : Occurrences(StepsOf(th), s) <= 1
  /\ \A o \in 1..Len(oh) : Occurrences(ResultsOf(sh), o) <= 1

\* C7 as stated: after any sequence of appends no node is under two
\* parents or twice under one.
C7_ExclusiveOwnership == Exclusive(suite, tests, steps, ops)

\* C7 amended: an append of a node that no parent holds yet, made when
\* ownership is exclusive, leaves ownership exclusive and the node held
\* exactly once.
C7_FreshAppendKeepsOwnership ==
  [][/\ \A t \in TestPtrs :
          (AddTest(t) /\ Exclusive(suite, tests, steps, ops)
             /\ Occurrences(ReportsOf(suite), t) = 0)
          => /\ Exclusive(suite', tests', steps', ops')
             /\ Occurrences(ReportsOf(suite'), t) = 1
     /\ \A t \in TestPtrs : \A s \in StepPtrs :
          (AddTestStep(t, s) /\ Exclusive(suite, tests, steps, ops)
             /\ Occurrences(StepsOf(tests), s) = 0)
          => /\ Exclusive(suite', tests', steps', ops')
             /\ Occurrences(StepsOf(tests'), s) = 1
     /\ \A s \in StepPtrs : \A o \in OpPtrs :
          (AddOperation(s, o) /\ Exclusive(suite, tests, steps, ops)
             /\ Occurrences(ResultsOf(steps), o) = 0)
          => /\ Exclusive(suite', tests', steps', ops')
             /\ Occurrences(ResultsOf(steps'), o) = 1
    ]_vars

C7_Witness ==
  /\ Exclusive(suite, tests, steps, ops)
  /\ Len(suite.Reports) = 1
  /\ \E t \in TestPtrs : Len(tests[t].Steps) = 1
  /\ \E s \in StepPtrs : Len(steps[s].Results) = 1

\* a timed node whose end has been marked
Ended(n) == n.EndTime # ZeroTime

Timed(n) ==
  IF Ended(n)
  THEN n.EndTime >= n.StartTime /\ n.Time = calculateDuration(n.StartTime, n.EndTime)
  ELSE n.Time = EmptyString

\* C8: every suite, test and operation report whose end has been marked has
\* EndTime >= StartTime and a Time that is the formatted duration from its
\* StartTime to its EndTime; an unmarked one has an empty Time.
C8_TimeDerived ==
  /\ Timed(suite)
  /\ \A t \in TestPtrs : Timed(tests[t])
  /\ \A o \in OpPtrs : Timed(ops[o])

C8_Witness ==
  /\ \E t \in TestPtrs : /\ tests[t].StartTime = 1
                         /\ tests[t].EndTime = 1 + TickStep
                         /\ tests[t].Time = <<"0", ".", "0", "0", "1">>
  /\ suite.EndTime = 1 + 2 * TickStep

\* C9: when all goroutines have finished and the runner has called Close,
\* Reports holds the test report of each goroutine exactly once and
\* nothing else, and Failures is the number of them that have a Failure.
C9_ConcurrentTests ==
  (DOMAIN pc # {} /\ pc[0] = "closed") =>
    /\ Len(suite.Reports) = NumProcs
    /\ \A p \in Procs : Occurrences(ReportsOf(suite), local[p].t) = 1
    /\ suite.Failures = Cardinality({p \in Procs : tests[local[p].t].Failure # NilFailure})

C9_Witness ==
  /\ DOMAIN pc # {}
  /\ pc[0] = "closed"
  /\ suite.Failures = 1
  /\ suite.Reports[1] = local[NumProcs].t

\* the fields of a timed node that marking its end leaves alone
SameButEnd(n, m) == [m EXCEPT !.EndTime = n.EndTime, !.Time = n.Time] = n

\* C10: MarkTestEnd and MarkOperationEnd set EndTime to the clock's value
\* and Time to the formatted duration from StartTime to it, on the first
\* call and on every later one, and change nothing else.
C10_MarkEnd ==
  [][/\ \A t \in TestPtrs :
          MarkTestEnd(t) => /\ tests'[t].EndTime = now
                            /\ tests'[t].Time = calculateDuration(tests[t].StartTime, now)
                            /\ SameButEnd(tests[t], tests'[t])
                            /\ \A u \in TestPtrs \ {t} : tests'[u] = tests[u]
                            /\ UNCHANGED <<suite, steps, ops, now>>
     /\ \A o \in OpPtrs :
          MarkOperationEnd(o) => /\ ops'[o].EndTime = now
                                 /\ ops'[o].Time = calculateDuration(ops[o].StartTime, now)
                                 /\ SameButEnd(ops[o], ops'[o])
                                 /\ UNCHANGED <<suite, tests, steps, now>>
    ]_vars

C10_Witness ==
  /\ \E t \in TestPtrs : /\ tests[t].StartTime = 1
                         /\ tests[t].EndTime = 1 + 2 * TickStep
                         /\ tests[t].Failure # NilFailure
                         /\ tests[t].Concurrent

====
